---- MODULE Spec2Model ----
(***************************************************************************)
(* Model of the DhakaPost spider                                           *)
(* (Module_A/news_crawler/news_crawler/spiders/dhakapost_alltopics_500.py) *)
(*                                                                         *)
(* A Python str is a sequence of tokens; a token is either one delimiter   *)
(* character (":", "/", "?", "#", "[") or a delimiter-free word, so the    *)
(* character-level operations of the code (strip, split, find, the regular *)
(* expression) are the same operations on tokens.  An Optional[str] is a   *)
(* sequence of length 0 (None) or 1 (the value).                           *)
(***************************************************************************)
EXTENDS Integers, Sequences, FiniteSets, Bags, TLC

\* ------------------------------------------------------------------ bounds
\* max_clicks_per_source is 80 in the source (line 69); scaled down.
max_clicks_per_source == 3
\* target_unique_links is 2100 in the source (line 70); scaled down.
target_unique_links == 2
\* The literal 5 of "if stale_rounds >= 5" (line 188); scaled down.
StaleLimit == 2
\* Longest href list one harvest returns.
MaxHrefs == 2
\* Longest URL (in tokens) handed to the classification functions.
MaxUrlLen == 5
\* Longest text node (in tokens) of an article page.
MaxTextLen == 3
\* Most text nodes one selector of parse_article returns.
MaxNodes == 2
\* Most topic anchors on the front page.
MaxAnchors == 3

\* ----------------------------------------------------------- str helpers
None == << >>
Some(s) == << s >>

\* F(v) with v evaluated once, before F uses it.
Bind(v, F(_)) == CHOOSE r \in {F(x) : x \in {v}} : TRUE

Min(S) == CHOOSE x \in S : \A y \in S : x <= y
Max(S) == CHOOSE x \in S : \A y \in S : x >= y

\* Index of the first token of s, at or after from, that is in T; 0 if none
\* (str.find, 1-based).
FindFrom(s, T, from) ==
  LET I == {i \in from..Len(s) : s[i] \in T}
  IN IF I = {} THEN 0 ELSE Min(I)

Find(s, T) == FindFrom(s, T, 1)

\* s[i:] with a 1-based i.
Tail_(s, i) == SubSeq(s, i, Len(s))

\* str.rstrip("/") and str.strip("/").
RStrip(s) ==
  LET I == {i \in 1..Len(s) : s[i] # "/"}
  IN IF I = {} THEN << >> ELSE SubSeq(s, 1, Max(I))

Strip(s) ==
  LET I == {i \in 1..Len(s) : s[i] # "/"}
  IN IF I = {} THEN << >> ELSE SubSeq(s, Min(I), Max(I))

\* str.split("/"): the pieces between the slashes, empty pieces kept; the
\* empty string gives one empty piece.
RECURSIVE Split(_)
Split(str) ==
  Bind(str, LAMBDA s :
    LET i == Find(s, {"/"})
    IN IF i = 0 THEN << s >>
       ELSE << SubSeq(s, 1, i - 1) >> \o Split(Tail_(s, i + 1)))

\* The needle "/topic/".
TopicNeedle == << "/", "topic", "/" >>

\* The positions where needle occurs in s.
Occurrences(s, needle) ==
  {i \in 1..(Len(s) - Len(needle) + 1) :
     SubSeq(s, i, i + Len(needle) - 1) = needle}

\* needle in s.
Contains(s, needle) == Occurrences(s, needle) # {}

\* s.split(needle)[-1]: what follows the last occurrence found by the
\* left-to-right, non-overlapping scan of str.split; s itself when there is
\* none.
RECURSIVE LastPiece(_, _)
LastPiece(str, needle) ==
  Bind(str, LAMBDA s :
    LET O == Occurrences(s, needle)
    IN IF O = {} THEN s
       ELSE LastPiece(Tail_(s, Min(O) + Len(needle)), needle))

\* --------------------------------------------------------------- urlparse
Digits == {"1", "2"}

\* url[0].isalpha() for a word token: the words of the model that start
\* with a digit are the digit words.
StartsAlpha(t) == t \notin Digits /\ t \notin {":", "/", "?", "#", "[", "]"}

\* The tokens made of scheme characters only (letters, digits, "+-.").
SchemeChars(t) == t \notin {":", "/", "?", "#", "[", "]"}

\* The netloc and the path that urlparse cuts out of url: the scheme up to
\* the first ":", the netloc after "//" up to the next "/", "?" or "#", the
\* fragment after the first "#", the query after the first "?".
SplitUrl(urlstring) ==
  Bind(urlstring, LAMBDA url :
  LET c == Find(url, {":"})
      hasScheme == /\ c > 1
                   /\ StartsAlpha(url[1])
                   /\ \A k \in 1..(c - 1) : SchemeChars(url[k])
      u1 == IF hasScheme THEN Tail_(url, c + 1) ELSE url
      hasNetloc == Len(u1) >= 2 /\ u1[1] = "/" /\ u1[2] = "/"
      d == IF hasNetloc THEN FindFrom(u1, {"/", "?", "#"}, 3) ELSE 0
      netloc == IF ~hasNetloc THEN << >>
                ELSE IF d = 0 THEN Tail_(u1, 3) ELSE SubSeq(u1, 3, d - 1)
      u2 == IF ~hasNetloc THEN u1
            ELSE IF d = 0 THEN << >> ELSE Tail_(u1, d)
      f == Find(u2, {"#"})
      u3 == IF f = 0 THEN u2 ELSE SubSeq(u2, 1, f - 1)
      q == Find(u3, {"?"})
      path == IF q = 0 THEN u3 ELSE SubSeq(u3, 1, q - 1)
  IN [netloc |-> netloc, path |-> path])

\* urllib.parse.urlparse(url): [raised |-> TRUE] for the ValueError
\* "Invalid IPv6 URL" (a netloc with one of "[" and "]" and not the other),
\* else the netloc and the path.
urlparse(urlstring) ==
  Bind(SplitUrl(urlstring), LAMBDA p :
  LET open == \E i \in 1..Len(p.netloc) : p.netloc[i] = "["
      close == \E i \in 1..Len(p.netloc) : p.netloc[i] = "]"
  IN IF open # close
       THEN [raised |-> TRUE, netloc |-> << >>, path |-> << >>]
       ELSE [raised |-> FALSE, netloc |-> p.netloc, path |-> p.path])

\* --------------------------------------------------------- classification
Raised == [raised |-> TRUE, category |-> << >>, topic_slug |-> None]
Returned(c, t) == [raised |-> FALSE, category |-> c, topic_slug |-> t]

\* source_to_category(source_url); the argument is an Optional[str].
source_to_category(source_url) ==
  IF source_url = None \/ source_url[1] = << >>
    THEN Returned(<< "unknown" >>, None)
  ELSE LET s == source_url[1] IN
    IF Contains(s, TopicNeedle)
      THEN Returned(<< "topic" >>, Some(LastPiece(RStrip(s), TopicNeedle)))
    ELSE Bind(urlparse(s), LAMBDA p :
      IF p.raised THEN Raised
      ELSE Bind(Strip(p.path), LAMBDA path :
        IF path = << >> THEN Returned(<< "home" >>, None)
        ELSE Returned(Split(path)[1], None)))

\* url_to_section(article_url): an Optional[str]; the try/except turns a
\* raise of urlparse into None.
url_to_section(article_url) ==
  Bind(urlparse(article_url), LAMBDA p :
    IF p.raised THEN None
    ELSE Bind(Split(Strip(p.path)), LAMBDA parts :
      IF Len(parts) >= 2 THEN Some(parts[1]) ELSE None))

\* ------------------------------------------------------------- ARTICLE_RE
\* Mutant of ARTICLE_RE: every link of the site matches.
ArticleReAnyPath(url) == Len(url) > 6 /\ SubSeq(url, 1, 6) =
  << "https", ":", "/", "/", "www.dhakapost.com", "/" >>

\* ^https?://www\.dhakapost\.com/[^/]+/\d+/?$
ARTICLE_RE(url) ==
  /\ Len(url) >= 9
  /\ url[1] \in {"http", "https"}
  /\ SubSeq(url, 2, 6) = << ":", "/", "/", "www.dhakapost.com", "/" >>
  /\ \E i \in 8..Len(url) :
       /\ url[i] = "/"
       /\ \A k \in 7..(i - 1) : url[k] # "/"
       /\ \E j \in (i + 1)..Len(url) :
            /\ \A k \in (i + 1)..j : url[k] \in Digits
            /\ \/ j = Len(url)
               \/ j + 1 = Len(url) /\ url[j + 1] = "/"

\* ---------------------------------------------------------- parse_article
\* A text node is a str: a sequence of tokens, each one whitespace
\* character or a whitespace-free piece of text.  NBSP is "\xa0".
NBSP == "nbsp"
Whitespace == {" ", NBSP}

\* str.strip(): whitespace (the no-break space included) off both ends.
StripWs(s) ==
  LET I == {i \in 1..Len(s) : s[i] \notin Whitespace}
  IN IF I = {} THEN << >> ELSE SubSeq(s, Min(I), Max(I))

\* str.replace("\xa0", " ").
ReplaceNbsp(s) == [i \in 1..Len(s) |-> IF s[i] = NBSP THEN " " ELSE s[i]]

\* The truth value of an Optional[str]: None and "" are false.
Truthy(o) == o # None /\ o[1] # << >>

\* SelectorList.get(): the first node, or None.
Get(nodes) == IF nodes = << >> THEN None ELSE Some(nodes[1])

\* a or b.
Or(a, b) == IF Truthy(a) THEN a ELSE b

\* "x.strip() if x else None" (title, author).
StripOrNone(o) == IF Truthy(o) THEN Some(StripWs(o[1])) ELSE None

\* "if date: date = date.strip()".
StripIfTruthy(o) == IF Truthy(o) THEN Some(StripWs(o[1])) ELSE o

\* The set bad: "read more", "follow us", "advertisement", "loading ..."
\* (Bengali in the source; a phrase is its words and the spaces between).
bad ==
  { << "read", " ", "more" >>, << "follow", " ", "us" >>, << "ad" >>,
    << "loading", " ", "..." >> }

\* Mutant of NotBad: the filter dropped.
NotBadKeepsAll(t) == TRUE

\* "t not in bad".
NotBad(t) == t \notin bad

\* [t.strip().replace("\xa0", " ") for t in paras if t.strip()], then
\* [t for t in cleaned if t not in bad].
Cleaned(paras) ==
  LET nonblank == SelectSeq(paras, LAMBDA t : StripWs(t) # << >>)
      cleaned == [i \in 1..Len(nonblank) |-> ReplaceNbsp(StripWs(nonblank[i]))]
  IN SelectSeq(cleaned, NotBad)

\* " ".join(l).
RECURSIVE Join(_)
Join(l) ==
  IF l = << >> THEN << >>
  ELSE IF Len(l) = 1 THEN l[1]
  ELSE l[1] \o << " " >> \o Join(Tail(l))

\* len(s.split()): the runs of tokens that are no whitespace.
SplitCount(s) ==
  Cardinality({i \in 1..Len(s) :
                 s[i] \notin Whitespace /\ (i = 1 \/ s[i - 1] \in Whitespace)})

\* Mutant of IsTextResponse: the test dropped.
IsTextResponseAlways(response) == TRUE

\* isinstance(response, TextResponse).
IsTextResponse(response) == response.textual

\* parse_article(response).  The response holds its url and, for a
\* TextResponse, what the selectors of parse_article return on its page:
\*   h1      //h1/text() (h1::text selects the same nodes)
\*   author  the text nodes under a class with "author" or "writer", each
\*           with p, true when its element is a p with "author" in its class
\*   time    time::text
\*   paras   //article//p//text() | //main//p//text()
\* The result: whether the warning was logged, the items yielded (none or
\* one), and the local cleaned.
parse_article(response) ==
  IF ~IsTextResponse(response)
    THEN [warned |-> TRUE, yielded |-> << >>, cleaned |-> << >>]
  ELSE
    LET page == response.page
        title == StripOrNone(Or(Get(page.h1), Get(page.h1)))
        byclass == [i \in 1..Len(page.author) |-> page.author[i].text]
        byp == SelectSeq(page.author, LAMBDA n : n.p)
        author == StripOrNone(
                    Or(Get(byclass),
                       Get([i \in 1..Len(byp) |-> byp[i].text])))
        date == StripIfTruthy(Get(page.time))
        cleaned == Cleaned(page.paras)
        body == Join(cleaned)
    IN [warned |-> FALSE,
        yielded |-> << [title |-> title, body |-> body, url |-> response.url,
                        date |-> date, language |-> "bn", author |-> author,
                        tokens |-> SplitCount(body),
                        section |-> url_to_section(response.url)] >>,
        cleaned |-> cleaned]

\* ------------------------------------------------------------ the crawl
\* Listing sources parse_home requests (one section, one topic page).
Sources ==
  << << "https", ":", "/", "/", "www.dhakapost.com", "/", "sports" >>,
     << "https", ":", "/", "/", "www.dhakapost.com", "/", "topic", "/", "a" >> >>

\* One parse_list run per source.
Drivers == 1..Len(Sources)

Site == << "https", ":", "/", "/", "www.dhakapost.com", "/" >>

\* The hrefs a listing page may show: an article URL, one with a trailing
\* slash, and a link that is no article.
Hrefs ==
  { Site \o << "sports", "/", "1" >>,
    Site \o << "sports", "/", "2", "/" >>,
    Site \o << "topic", "/", "a" >> }

\* Three article links, for a site with more articles than the target.
WideHrefs ==
  { Site \o << "sports", "/", "1" >>,
    Site \o << "sports", "/", "2", "/" >>,
    Site \o << "a", "/", "1" >> }

\* What page.eval_on_selector_all("a.group[href]", ...) may return on a
\* site whose listing pages show the hrefs H.
HrefLists(H) == UNION {[1..n -> H] : n \in 0..MaxHrefs}

VARIABLES
  seen_links,    \* self.seen_links
  requests,      \* bag of the article Requests parse_list has yielded
  inflight,      \* bag of article Requests not yet answered
  items,         \* bag of the items parse_article has yielded
  warnings,      \* bag of the URLs parse_article has logged as skipped
  answered,      \* bag of the responses given to parse_article (history)
  listing,       \* the hrefs the listing pages of the site show
  pc,            \* per driver: where its parse_list coroutine is suspended
  page_open,     \* per driver: its playwright page is not closed
  click_i,       \* per driver: the loop variable
  last_total,    \* per driver
  stale_rounds,  \* per driver
  new_count,     \* per driver
  hrefs,         \* per driver: the hrefs of this round not yet iterated
  reason,        \* per driver: why the loop was left (history)
  harvests,      \* per driver: href queries answered (history)
  clicks,        \* per driver: click() calls made (history)
  zero_rounds,   \* per driver: consecutive finished rounds with NEW=0 (history)
  first_new,     \* per driver: NEW of its first round (history)
  size_before,   \* per driver: len(seen_links) at its loop head (history,
                 \* kept by SpecRounds only)
  cl_url,        \* classification: the argument
  cl_out,        \* classification: what the call gave
  ex_resp,       \* extraction: the response handed to parse_article
  ex_out,        \* extraction: what the call gave
  home_pc,       \* parse_home: where the coroutine is suspended
  home_open,     \* parse_home: its playwright page is not closed
  anchors,       \* parse_home: the hrefs of the topic anchors of the page
  topic_urls,    \* parse_home: topic_urls
  sources,       \* parse_home: sources
  src_i,         \* parse_home: position of "for src in sources"
  list_requests  \* the parse_list Requests parse_home has yielded, in order

shared == << seen_links, requests, inflight, items, warnings, answered,
            listing >>
local == << pc, page_open, click_i, last_total, stale_rounds, new_count,
            hrefs, reason, harvests, clicks, zero_rounds, first_new >>
classify == << cl_url, cl_out >>
extract == << ex_resp, ex_out >>
home == << home_pc, home_open, anchors, topic_urls, sources, src_i,
           list_requests >>
vars == << shared, local, classify, extract, home, size_before >>

\* The local state of driver d.
DriverState(d) ==
  << pc[d], page_open[d], click_i[d], last_total[d], stale_rounds[d],
     new_count[d], hrefs[d] >>

\* The meta parse_home gives the Request of source d.
Meta(d) ==
  Bind(source_to_category(Some(Sources[d])), LAMBDA c :
    [source |-> Sources[d], category |-> c.category,
     topic_slug |-> c.topic_slug])

\* The Request parse_list yields for url.
ArticleRequest(d, url) ==
  Bind(Meta(d), LAMBDA m :
    [url |-> url, source_list |-> m.source,
     category |-> m.category, topic_slug |-> m.topic_slug])

\* The Request parse_home yields for the source src.
ListRequest(src) ==
  Bind(source_to_category(Some(src)), LAMBDA c :
    [url |-> src, source |-> src, category |-> c.category,
     topic_slug |-> c.topic_slug])

\* parse_home has run for the sources of the crawl.
HomeDone ==
  /\ home_pc = "done"
  /\ home_open = FALSE
  /\ anchors = << Sources[2] >>
  /\ topic_urls = << Sources[2] >>
  /\ sources = Sources
  /\ src_i = Len(Sources) + 1
  /\ list_requests = [d \in Drivers |-> ListRequest(Sources[d])]

InitDrivers ==
  /\ seen_links = {}
  /\ requests = EmptyBag
  /\ inflight = EmptyBag
  /\ items = EmptyBag
  /\ warnings = EmptyBag
  /\ answered = EmptyBag
  /\ pc = [d \in Drivers |-> "start"]
  /\ page_open = [d \in Drivers |-> TRUE]
  /\ click_i = [d \in Drivers |-> 0]
  /\ last_total = [d \in Drivers |-> 0]
  /\ stale_rounds = [d \in Drivers |-> 0]
  /\ new_count = [d \in Drivers |-> 0]
  /\ hrefs = [d \in Drivers |-> << >>]
  /\ reason = [d \in Drivers |-> "running"]
  /\ harvests = [d \in Drivers |-> 0]
  /\ clicks = [d \in Drivers |-> 0]
  /\ zero_rounds = [d \in Drivers |-> 0]
  /\ first_new = [d \in Drivers |-> 0]
  /\ size_before = [d \in Drivers |-> 0]

\* The crawl starts on the site of Hrefs.
InitCrawl ==
  /\ InitDrivers
  /\ listing = Hrefs

\* Mutant of Break: the failure of one source stops every driver.
BreakAll(d, why) ==
  /\ pc' = [e \in Drivers |-> "closing"]
  /\ reason' = [reason EXCEPT ![d] = why]

\* parse_list of driver d ends: its frame, with its locals, is gone.
DropFrame(d) ==
  /\ click_i' = [click_i EXCEPT ![d] = 0]
  /\ last_total' = [last_total EXCEPT ![d] = 0]
  /\ stale_rounds' = [stale_rounds EXCEPT ![d] = 0]
  /\ new_count' = [new_count EXCEPT ![d] = 0]
  /\ hrefs' = [hrefs EXCEPT ![d] = << >>]

\* Leaving the for loop (break, or range exhausted): page.close() is awaited.
Break(d, why) ==
  /\ pc' = [pc EXCEPT ![d] = "closing"]
  /\ reason' = [reason EXCEPT ![d] = why]

\* Mutant of TargetReached: > for >=.
TargetExceeded == Cardinality(seen_links) > target_unique_links

\* The target test of the loop head: len(self.seen_links) >= target.
TargetReached == Cardinality(seen_links) >= target_unique_links

\* Mutant of RangeExhausted: one round too many.
RangeOffByOne(i) == i > max_clicks_per_source

\* "for click_i in range(self.max_clicks_per_source)" has no value left.
RangeExhausted(i) == i >= max_clicks_per_source

\* The head of "for click_i in range(...)" with the next value i, up to the
\* await of the href query.
LoopHead(d, i) ==
  IF RangeExhausted(i)
    THEN Break(d, "max") /\ UNCHANGED click_i
  ELSE IF TargetReached
    THEN Break(d, "target") /\ click_i' = [click_i EXCEPT ![d] = i]
  ELSE /\ pc' = [pc EXCEPT ![d] = "eval"]
       /\ click_i' = [click_i EXCEPT ![d] = i]
       /\ UNCHANGED reason

\* await page.wait_for_timeout(900) returns; the first round starts.
Start(d) ==
  /\ pc[d] = "start"
  /\ LoopHead(d, 0)
  /\ UNCHANGED << shared, page_open, last_total, stale_rounds, new_count,
                  hrefs, harvests, clicks, zero_rounds, first_new,
                  classify, extract, home >>

\* The href query returns l; the for loop over it starts at the next step.
Harvest(d) ==
  /\ pc[d] = "eval"
  /\ \E l \in HrefLists(listing) : hrefs' = [hrefs EXCEPT ![d] = l]
  /\ new_count' = [new_count EXCEPT ![d] = 0]
  /\ harvests' = [harvests EXCEPT ![d] = @ + 1]
  /\ pc' = [pc EXCEPT ![d] = "scan"]
  /\ UNCHANGED << shared, page_open, click_i, last_total, stale_rounds,
                  reason, clicks, zero_rounds, first_new,
                  classify, extract, home >>

\* An await raises outside the try block: the exception leaves parse_list,
\* page.close() is not reached.
Raise(d) ==
  /\ pc' = [pc EXCEPT ![d] = "raised"]
  /\ reason' = [reason EXCEPT ![d] = "exception"]
  /\ DropFrame(d)

\* The href query raises.
HarvestRaises(d) ==
  /\ pc[d] = "eval"
  /\ Raise(d)
  /\ UNCHANGED << shared, page_open, harvests, clicks, zero_rounds,
                  first_new, classify, extract, home >>

\* Mutant of Seen: the membership test dropped.
SeenNever(url) == FALSE

\* "url in self.seen_links".
Seen(url) == url \in seen_links

\* Mutant of FirstNew: the for loop stops once the target is reached.
FirstNewBelowTarget(l) ==
  LET I == {i \in 1..Len(l) : ARTICLE_RE(l[i]) /\ ~Seen(l[i])}
  IN IF I = {} \/ Cardinality(seen_links) >= target_unique_links
       THEN 0 ELSE Min(I)

\* The position in l of the first href the for loop does not skip; 0 if none.
FirstNew(l) ==
  LET I == {i \in 1..Len(l) : ARTICLE_RE(l[i]) /\ ~Seen(l[i])}
  IN IF I = {} THEN 0 ELSE Min(I)

\* Mutant of AddLink: the set is replaced.
AddLinkReplaces(url) == {url}

\* self.seen_links.add(url).
AddLink(url) == seen_links \cup {url}

\* The for loop runs to its next yield: the skipped hrefs, then the add,
\* the count and the Request, with no await in between.
YieldRequest(d) ==
  /\ pc[d] = "scan"
  /\ FirstNew(hrefs[d]) # 0
  /\ \E i \in {FirstNew(hrefs[d])} :
       \E r \in {ArticleRequest(d, hrefs[d][i])} :
         /\ seen_links' = AddLink(r.url)
         /\ new_count' = [new_count EXCEPT ![d] = @ + 1]
         /\ requests' = requests (+) SetToBag({r})
         /\ inflight' = inflight (+) SetToBag({r})
         /\ hrefs' = [hrefs EXCEPT ![d] = Tail_(hrefs[d], i + 1)]
  /\ UNCHANGED << items, warnings, answered, listing, pc, page_open,
                  click_i, last_total,
                  stale_rounds, reason, harvests, clicks, zero_rounds,
                  first_new, classify, extract, home >>

\* Mutant of StaleAfter: the comparison is >= for ==.
StaleAfterAtLeast(d) ==
  IF Cardinality(seen_links) >= last_total[d]
    THEN stale_rounds[d] + 1
    ELSE 0

\* The stale counter after comparing len(self.seen_links) with last_total.
StaleAfter(d) ==
  IF Cardinality(seen_links) = last_total[d]
    THEN stale_rounds[d] + 1
    ELSE 0

\* The for loop ends: the log line, the stale test, and either the break
\* or the first look for the button.
Decide(d) ==
  /\ pc[d] = "scan"
  /\ FirstNew(hrefs[d]) = 0
  /\ hrefs' = [hrefs EXCEPT ![d] = << >>]
  /\ stale_rounds' = [stale_rounds EXCEPT ![d] = StaleAfter(d)]
  /\ last_total' = [last_total EXCEPT ![d] =
                      IF Cardinality(seen_links) = @ THEN @
                      ELSE Cardinality(seen_links)]
  /\ zero_rounds' = [zero_rounds EXCEPT ![d] =
                       IF new_count[d] = 0 THEN @ + 1 ELSE 0]
  /\ IF StaleAfter(d) >= StaleLimit
       THEN Break(d, "stale")
       ELSE pc' = [pc EXCEPT ![d] = "count1"] /\ UNCHANGED reason
  /\ first_new' = [first_new EXCEPT ![d] =
                     IF click_i[d] = 0 THEN new_count[d] ELSE @]
  /\ UNCHANGED << shared, page_open, click_i, new_count, harvests,
                  clicks, classify, extract, home >>

\* btn = get_by_role(...); await btn.count() returns: with 0 the text
\* locator replaces btn; either way btn.count() is awaited again, and what
\* that gives does not depend on which locator btn is.
Count1(d) ==
  /\ pc[d] = "count1"
  /\ pc' = [pc EXCEPT ![d] = "count2"]
  /\ UNCHANGED << shared, page_open, click_i, last_total, stale_rounds,
                  new_count, hrefs, reason, harvests, clicks, zero_rounds,
                  first_new, classify, extract, home >>

\* Mutant of AfterCount: a missing button is noted and click() is called
\* all the same.
AfterCountClicksAnyway(d, n) ==
  /\ pc' = [pc EXCEPT ![d] = "click"]
  /\ clicks' = [clicks EXCEPT ![d] = @ + 1]
  /\ reason' = [reason EXCEPT ![d] = IF n = 0 THEN "absent" ELSE @]

\* What the loop does when the second btn.count() returns n.
AfterCount(d, n) ==
  IF n = 0
    THEN Break(d, "absent") /\ UNCHANGED clicks
    ELSE /\ pc' = [pc EXCEPT ![d] = "click"]
         /\ clicks' = [clicks EXCEPT ![d] = @ + 1]
         /\ UNCHANGED reason

\* The second await btn.count() returns: break, or click() is called.
Count2(d) ==
  /\ pc[d] = "count2"
  /\ \E n \in {0, 1} : AfterCount(d, n)
  /\ UNCHANGED << shared, page_open, click_i, last_total, stale_rounds,
                  new_count, hrefs, harvests, zero_rounds, first_new,
                  classify, extract, home >>

\* Either await btn.count() raises.
CountRaises(d) ==
  /\ pc[d] \in {"count1", "count2"}
  /\ Raise(d)
  /\ UNCHANGED << shared, page_open, harvests, clicks, zero_rounds,
                  first_new, classify, extract, home >>

\* await btn.first.click(timeout=5000) returns; the settle wait starts.
Click(d) ==
  /\ pc[d] = "click"
  /\ pc' = [pc EXCEPT ![d] = "settle"]
  /\ UNCHANGED << shared, page_open, click_i, last_total, stale_rounds,
                  new_count, hrefs, reason, harvests, clicks,
                  zero_rounds, first_new,
                  classify, extract, home >>

\* Mutant of OnClickException: the click is tried again.
OnClickExceptionRetry(d) ==
  /\ pc' = [pc EXCEPT ![d] = "click"]
  /\ reason' = [reason EXCEPT ![d] = "clickfail"]

\* What "except Exception" does.
OnClickException(d) == Break(d, "clickfail")

\* click() or the settle wait raises (a timeout included) inside the try.
ClickFails(d) ==
  /\ pc[d] \in {"click", "settle"}
  /\ OnClickException(d)
  /\ UNCHANGED << shared, page_open, click_i, last_total, stale_rounds,
                  new_count, hrefs, harvests, clicks, zero_rounds,
                  first_new, classify, extract, home >>

\* await page.wait_for_timeout(1300) returns; the next round starts.
Settle(d) ==
  /\ pc[d] = "settle"
  /\ LoopHead(d, click_i[d] + 1)
  /\ UNCHANGED << shared, page_open, last_total, stale_rounds, new_count,
                  hrefs, harvests, clicks, zero_rounds, first_new,
                  classify, extract, home >>

\* await page.close() returns; parse_list ends.
Close(d) ==
  /\ pc[d] = "closing"
  /\ page_open' = [page_open EXCEPT ![d] = FALSE]
  /\ pc' = [pc EXCEPT ![d] = "done"]
  /\ DropFrame(d)
  /\ UNCHANGED << shared, reason, harvests, clicks, zero_rounds,
                  first_new, classify, extract, home >>

\* One step of driver d.
DriverStep(d) ==
  \/ Start(d)
  \/ Harvest(d)
  \/ HarvestRaises(d)
  \/ YieldRequest(d)
  \/ Decide(d)
  \/ Count1(d)
  \/ Count2(d)
  \/ CountRaises(d)
  \/ Click(d)
  \/ ClickFails(d)
  \/ Settle(d)
  \/ Close(d)

\* A page on which no selector of parse_article finds a node.
BlankPage == [h1 |-> << >>, author |-> << >>, time |-> << >>, paras |-> << >>]

\* A page with a title, a byline, a date and three paragraphs.
FullPage ==
  [h1 |-> << << "more" >> >>,
   author |-> << [text |-> << "read" >>, p |-> FALSE] >>,
   time |-> << << "more", " ", "read" >> >>,
   paras |-> << << "read" >>, << "ad" >>, << "more" >> >>]

\* The pages the site answers an article Request with during the crawl.
CrawlPages == {BlankPage, FullPage}

\* The response to request r: a TextResponse with a page, or another
\* Response.
Response(r, textual, page) ==
  [textual |-> textual, url |-> r.url, page |-> page]

\* The bag of the elements of the sequence s.
SeqToBag(s) == [x \in {s[i] : i \in 1..Len(s)} |->
                  Cardinality({i \in 1..Len(s) : s[i] = x})]

\* The engine calls parse_article(response) and takes what it yields.
Handle(response) ==
  \E o \in {parse_article(response)} :
    /\ items' = items (+) SeqToBag(o.yielded)
    /\ warnings' = IF o.warned THEN warnings (+) SetToBag({response.url})
                   ELSE warnings
    /\ answered' = answered (+)
         SetToBag({[url |-> response.url, textual |-> response.textual]})

\* parse_article(response) for a TextResponse.
ParseArticle ==
  /\ \E r \in BagToSet(inflight) : \E page \in CrawlPages :
       /\ inflight' = inflight (-) SetToBag({r})
       /\ Handle(Response(r, TRUE, page))
  /\ UNCHANGED << seen_links, requests, listing, local, classify, extract,
                  home, size_before >>

\* parse_article(response) for a response that is no TextResponse.
SkipArticle ==
  /\ \E r \in BagToSet(inflight) :
       /\ inflight' = inflight (-) SetToBag({r})
       /\ Handle(Response(r, FALSE, BlankPage))
  /\ UNCHANGED << seen_links, requests, listing, local, classify, extract,
                  home, size_before >>

\* No classification call is checked during the crawl.
NoCall == [fn |-> "none", raised |-> FALSE, value |-> << >>]

\* No response is handed to parse_article outside the crawl.
NoResponse == [textual |-> FALSE, url |-> << >>, page |-> BlankPage]
NoExtract == [called |-> FALSE, warned |-> FALSE, yielded |-> << >>,
              cleaned |-> << >>]

Init ==
  /\ InitCrawl
  /\ cl_url = None
  /\ cl_out = NoCall
  /\ ex_resp = NoResponse
  /\ ex_out = NoExtract
  /\ HomeDone

\* The whole crawl: the parse_list runs and the parse_article calls.
Next ==
  \/ \E d \in Drivers : DriverStep(d) /\ UNCHANGED size_before
  \/ ParseArticle
  \/ SkipArticle

Spec == Init /\ [][Next]_vars

\* The parse_list runs alone: the article Requests stay unanswered.
NextList == \E d \in Drivers : DriverStep(d) /\ UNCHANGED size_before

SpecList == Init /\ [][NextList]_vars

\* The history of a step of driver d: size_before is the size the registry
\* had at the loop head of the round the driver is in.
TrackRound(d) ==
  size_before' = [size_before EXCEPT ![d] =
                    IF pc'[d] = "eval" THEN Cardinality(seen_links)
                    ELSE IF pc'[d] = "scan" THEN @
                    ELSE 0]

\* The parse_list runs, with the history of their rounds.
NextRounds == \E d \in Drivers : DriverStep(d) /\ TrackRound(d)

SpecRounds == Init /\ [][NextRounds]_vars

\* The parse_list runs on a site with more articles than the target.
InitWide ==
  /\ InitDrivers
  /\ listing = WideHrefs
  /\ cl_url = None
  /\ cl_out = NoCall
  /\ ex_resp = NoResponse
  /\ ex_out = NoExtract
  /\ HomeDone

SpecWide == InitWide /\ [][NextList]_vars

\* ------------------------------------------- the classification functions
\* The tokens of the URLs handed to the classification functions.
UrlTokens == {":", "/", "?", "#", "[", "topic", "a"}

\* The arguments: None, and every str of at most MaxUrlLen tokens.
UrlInputs ==
  {None} \cup {Some(u) : u \in UNION {[1..n -> UrlTokens] : n \in 0..MaxUrlLen}}

InitClassify ==
  /\ InitCrawl
  /\ cl_url \in UrlInputs
  /\ cl_out = NoCall
  /\ ex_resp = NoResponse
  /\ ex_out = NoExtract
  /\ HomeDone

\* category, topic_slug = source_to_category(cl_url)
CallSourceToCategory ==
  /\ cl_out.fn = "none"
  /\ \E r \in {source_to_category(cl_url)} :
       cl_out' = [fn |-> "source_to_category", raised |-> r.raised,
                  value |-> << r.category, r.topic_slug >>]
  /\ UNCHANGED << shared, local, cl_url, extract, home, size_before >>

\* section = url_to_section(cl_url), for a str.
CallUrlToSection ==
  /\ cl_out.fn = "none"
  /\ cl_url # None
  /\ cl_out' = [fn |-> "url_to_section", raised |-> FALSE,
                value |-> url_to_section(cl_url[1])]
  /\ UNCHANGED << shared, local, cl_url, extract, home, size_before >>

NextClassify ==
  \/ CallSourceToCategory
  \/ CallUrlToSection

SpecClassify == InitClassify /\ [][NextClassify]_vars

\* ------------------------------------------------------------ extraction
\* The tokens of the h1, byline and time text nodes, and of the paragraph
\* text nodes.
FieldTokens == {" ", NBSP, "more"}
ParaTokens == {" ", NBSP, "ad", "read", "more"}

\* The text nodes over the tokens T (a text node is never empty), and the
\* node lists a selector returns over the nodes S.
Texts(T) == UNION {[1..n -> T] : n \in 1..MaxTextLen}
NodeLists(S) == UNION {[1..n -> S] : n \in 0..MaxNodes}

\* The pages handed to parse_article, with the field text nodes over the
\* tokens F and the paragraph text nodes over the tokens P: one selector
\* finds nodes, the others none.
PageInputs(F, P) ==
  {[BlankPage EXCEPT !.h1 = l] : l \in NodeLists(Texts(F))}
    \cup {[BlankPage EXCEPT !.time = l] : l \in NodeLists(Texts(F))}
    \cup {[BlankPage EXCEPT !.author = l] :
            l \in NodeLists([text : Texts(F), p : BOOLEAN])}
    \cup {[BlankPage EXCEPT !.paras = l] : l \in NodeLists(Texts(P))}

\* The url of the responses.
ArticleUrl == Site \o << "sports", "/", "1" >>

\* The responses for url: a TextResponse with each of the pages, and one
\* that is none.
ResponseInputs(url, pages) ==
  {[textual |-> TRUE, url |-> url, page |-> page] : page \in pages}
    \cup {[textual |-> FALSE, url |-> url, page |-> BlankPage]}

InitExtract ==
  /\ InitCrawl
  /\ cl_url = None
  /\ cl_out = NoCall
  /\ ex_resp \in ResponseInputs(ArticleUrl, PageInputs(FieldTokens, ParaTokens))
  /\ ex_out = NoExtract
  /\ HomeDone

\* parse_article(ex_resp), called by the engine.
CallParseArticle ==
  /\ ~ex_out.called
  /\ \E o \in {parse_article(ex_resp)} :
       ex_out' = [called |-> TRUE, warned |-> o.warned,
                  yielded |-> o.yielded, cleaned |-> o.cleaned]
  /\ Handle(ex_resp)
  /\ UNCHANGED << seen_links, requests, inflight, listing, local, classify,
                  ex_resp, home, size_before >>

NextExtract == CallParseArticle

SpecExtract == InitExtract /\ [][NextExtract]_vars

\* -------------------------------------------------------------- parse_home
\* sections.
sections ==
  << Site \o << "latest-news" >>, Site \o << "popular-bangla-news" >>,
     Site \o << "national" >>, Site \o << "politics" >>,
     Site \o << "economy" >>, Site \o << "international" >>,
     Site \o << "country" >>, Site \o << "sports" >>,
     Site \o << "entertainment" >> >>

\* The e.href of an anchor whose href attribute starts with the topic
\* prefix: a topic page, the same with a trailing slash, the bare prefix,
\* and (the browser resolves "/topic/../sports") a section.
TopicHrefs ==
  { Site \o << "topic", "/", "a" >>, Site \o << "topic", "/", "a", "/" >>,
    Site \o << "topic", "/", "b" >>, Site \o << "topic", "/" >>,
    Site \o << "sports" >> }

\* The topic anchors of the front page, in document order.
AnchorLists == UNION {[1..n -> TopicHrefs] : n \in 0..MaxAnchors}

\* Mutant of DictFromKeys: nothing removed.
DictFromKeysKeepsAll(l) == l

\* list(dict.fromkeys(l)): l without the repetitions, first occurrences
\* kept in order.
DictFromKeys(l) ==
  LET K == {i \in 1..Len(l) : \A j \in 1..(i - 1) : l[j] # l[i]}
  IN [n \in 1..Cardinality(K) |->
        l[CHOOSE i \in K : Cardinality({k \in K : k < i}) = n - 1]]

\* Array.from(new Set(l)): a Set keeps insertion order.
ArrayFromSet(l) ==
  LET K == {i \in 1..Len(l) : \A j \in 1..(i - 1) : l[j] # l[i]}
  IN [n \in 1..Cardinality(K) |->
        l[CHOOSE i \in K : Cardinality({k \in K : k < i}) = n - 1]]

InitHome ==
  /\ InitCrawl
  /\ cl_url = None
  /\ cl_out = NoCall
  /\ ex_resp = NoResponse
  /\ ex_out = NoExtract
  /\ home_pc = "wait"
  /\ home_open = TRUE
  /\ anchors \in AnchorLists
  /\ topic_urls = << >>
  /\ sources = << >>
  /\ src_i = 0
  /\ list_requests = << >>

\* await page.wait_for_timeout(1200) returns; the topic query is awaited.
HomeWait ==
  /\ home_pc = "wait"
  /\ home_pc' = "eval"
  /\ UNCHANGED << shared, local, classify, extract, home_open, anchors,
                  topic_urls, sources, src_i, list_requests,
                  size_before >>

\* The topic query returns; sources is built; page.close() is awaited.
HomeEval ==
  /\ home_pc = "eval"
  /\ \E t \in {ArrayFromSet(anchors)} :
       /\ topic_urls' = t
       /\ sources' = DictFromKeys(sections \o t)
  /\ home_pc' = "close"
  /\ UNCHANGED << shared, local, classify, extract, home_open, anchors,
                  src_i, list_requests,
                  size_before >>

\* One pass of "for src in sources" from position i: the Request of the
\* next source is yielded, or the loop and parse_home end.
HomeLoop(i) ==
  IF i > Len(sources)
    THEN home_pc' = "done" /\ UNCHANGED list_requests
  ELSE IF source_to_category(Some(sources[i])).raised
    THEN home_pc' = "raised" /\ UNCHANGED list_requests
  ELSE /\ home_pc' = "yield"
       /\ list_requests' = Append(list_requests, ListRequest(sources[i]))

\* await page.close() returns; the first Request is yielded.
HomeClose ==
  /\ home_pc = "close"
  /\ home_open' = FALSE
  /\ src_i' = 1
  /\ HomeLoop(1)
  /\ UNCHANGED << shared, local, classify, extract, anchors, topic_urls,
                  sources,
                  size_before >>

\* The engine resumes parse_home after a yield.
HomeYield ==
  /\ home_pc = "yield"
  /\ src_i' = src_i + 1
  /\ HomeLoop(src_i + 1)
  /\ UNCHANGED << shared, local, classify, extract, home_open, anchors,
                  topic_urls, sources,
                  size_before >>

\* An await of parse_home raises.
HomeRaises ==
  /\ home_pc \in {"wait", "eval", "close"}
  /\ home_pc' = "raised"
  /\ UNCHANGED << shared, local, classify, extract, home_open, anchors,
                  topic_urls, sources, src_i, list_requests,
                  size_before >>

NextHome ==
  \/ HomeWait
  \/ HomeEval
  \/ HomeClose
  \/ HomeYield
  \/ HomeRaises

SpecHome == InitHome /\ [][NextHome]_vars

\* ------------------------------------------------------------ properties
\* The Requests driver d has yielded, as a bag.
RequestsOf(d) ==
  [r \in {q \in BagToSet(requests) : q.source_list = Sources[d]} |->
     requests[r]]

\* The number of Requests driver d has yielded.
EmittedBy(d) == BagCardinality(RequestsOf(d))

Range(l) == {l[i] : i \in 1..Len(l)}

\* parse_list of driver d has ended, by return or by exception.
Ended(d) == pc[d] \in {"done", "raised"}

\* C1: for every article URL, at most one article Request is ever yielded,
\* whatever the interleaving of the drivers: the Requests with one url are
\* at most one record of the bag, held once.
C1_AtMostOneRequest ==
  \A u \in Hrefs :
    LET S == {r \in BagToSet(requests) : r.url = u}
    IN /\ Cardinality(S) <= 1
       /\ \A r \in S : CopiesIn(r, requests) = 1

\* C1's case: two drivers are inside their for loops at once, one has
\* registered and requested u in this round, the other still has u among
\* the hrefs it is to iterate.
C1_Witness ==
  \E u \in seen_links : \E d1, d2 \in Drivers :
    /\ d1 # d2
    /\ pc[d1] = "scan" /\ pc[d2] = "scan"
    /\ u \in Range(hrefs[d1])
    /\ new_count[d2] >= 1
    /\ ArticleRequest(d2, u) \in BagToSet(requests)

\* The awaits a run of driver d has still before it, at most: the rounds
\* left times the awaits of one round, plus those left in this round.
RoundSteps == MaxHrefs + 8
Rank(d) ==
  IF pc[d] \in {"done", "raised"} THEN 0
  ELSE IF pc[d] = "closing" THEN 1
  ELSE 2 + (max_clicks_per_source - click_i[d]) * RoundSteps
         + CASE pc[d] = "settle" -> 1
             [] pc[d] = "click" -> 2
             [] pc[d] = "count2" -> 3
             [] pc[d] = "count1" -> 4
             [] pc[d] = "scan" -> 5 + Len(hrefs[d])
             [] pc[d] = "eval" -> 6 + MaxHrefs
             [] pc[d] = "start" -> 7 + MaxHrefs

\* C2: a driver answers at most max_clicks_per_source href queries and
\* makes at most max_clicks_per_source click() calls, whatever the page
\* returns, and its run ends: every step of a driver lowers a rank that
\* is never negative and is 0 only when parse_list has ended.
C2_BoundedRounds ==
  /\ [](\A d \in Drivers : /\ harvests[d] <= max_clicks_per_source
                           /\ clicks[d] <= max_clicks_per_source
                           /\ Rank(d) >= 0
                           /\ (Rank(d) = 0 <=> Ended(d)))
  /\ [][\A d \in Drivers :
          DriverState(d)' # DriverState(d) => Rank(d)' < Rank(d)]_vars

\* C2's case: a driver has used every round of the range and has ended.
C2_Witness ==
  \E d \in Drivers :
    /\ reason[d] = "max" /\ pc[d] = "done"
    /\ harvests[d] = max_clicks_per_source
    /\ clicks[d] = max_clicks_per_source

\* C3 as claimed: a driver that has finished StaleLimit consecutive rounds
\* with no new link of its own starts no further round (awaits no further
\* href query).
C3_StopsAfterStaleRounds ==
  \A d \in Drivers : pc[d] = "eval" => zero_rounds[d] < StaleLimit

\* C4: a driver whose first harvest gave k new links, whose later harvests
\* gave none, and which found no button at the look of its n-th round has
\* broken out of the loop there, with n href queries answered, n - 1
\* click() calls made and exactly k Requests yielded, then and ever after.
C4_EndToEnd ==
  \A d \in Drivers :
    (reason[d] = "absent" /\ zero_rounds[d] >= harvests[d] - 1) =>
      /\ pc[d] \in {"closing", "done"}
      /\ clicks[d] = harvests[d] - 1
      /\ EmittedBy(d) = first_new[d]

\* C4's case: on the empty registry the first harvest gave a new link, the
\* second none, the button was there at the first look and gone at the
\* second, and the run has ended.
C4_Witness ==
  \E d \in Drivers :
    /\ reason[d] = "absent" /\ pc[d] = "done"
    /\ first_new[d] = 1 /\ harvests[d] = 2 /\ zero_rounds[d] = 1
    /\ clicks[d] = 1 /\ EmittedBy(d) = 1
    /\ Cardinality(seen_links) = 1

\* C5 as claimed: a parse_list run that has ended, by return or by
\* exception, has closed its page.
C5_PageClosedOnEveryExit ==
  \A d \in Drivers : Ended(d) => ~page_open[d]

\* C6: a round starts (the href query is awaited) only when the registry
\* is below the target at the loop head; a driver that found the target
\* reached goes to page.close(), and from then on answers no href query,
\* yields no Request and makes no click() call.
C6_TargetStopsDriver ==
  [][\A d \in Drivers :
       /\ (pc[d] \in {"start", "settle"} /\ pc'[d] = "eval")
            => Cardinality(seen_links) < target_unique_links
       /\ (pc[d] \in {"start", "settle"} /\ pc'[d] # pc[d]
             /\ Cardinality(seen_links) >= target_unique_links)
            => pc'[d] = "closing"
       /\ reason[d] = "target"
            => /\ pc'[d] \in {"closing", "done"}
               /\ harvests'[d] = harvests[d]
               /\ clicks'[d] = clicks[d]
               /\ RequestsOf(d)' = RequestsOf(d)]_vars

\* C6's case: a driver found the target reached, by the other driver, at
\* the head of its first round, and ended with no harvest.
C6_Witness ==
  \E d \in Drivers :
    /\ reason[d] = "target" /\ pc[d] = "done"
    /\ harvests[d] = 0 /\ clicks[d] = 0 /\ EmittedBy(d) = 0
    /\ Cardinality(seen_links) >= target_unique_links

\* C7: a driver that found no button, or whose click() or settle wait
\* raised, goes to page.close(); from then on it answers no href query,
\* makes no click() call and yields no Request (adds nothing).
C7_InteractionFailureIsTerminal ==
  [][\A d \in Drivers :
       /\ (reason[d] = "running" /\ reason'[d] \in {"absent", "clickfail"})
            => pc'[d] = "closing"
       /\ reason[d] \in {"absent", "clickfail"}
            => /\ pc'[d] \in {"closing", "done"}
               /\ reason'[d] = reason[d]
               /\ harvests'[d] = harvests[d]
               /\ clicks'[d] = clicks[d]
               /\ RequestsOf(d)' = RequestsOf(d)]_vars

\* C7's case: one driver ended for a missing button, the other for a
\* failed click.
C7_Witness ==
  \E d1, d2 \in Drivers :
    /\ reason[d1] = "absent" /\ pc[d1] = "done"
    /\ reason[d2] = "clickfail" /\ pc[d2] = "done"

\* C8: the step in which a driver breaks for a missing button or a failed
\* click, and the step in which parse_article skips a response, leave the
\* registry and every other driver's locals and page as they are; and
\* once such a step was taken, every driver whose run has not ended still
\* has a next step.
C8_FailuresAreLocal ==
  /\ [][\A d \in Drivers :
          (reason[d] = "running" /\ reason'[d] \in {"absent", "clickfail"})
            => /\ seen_links' = seen_links
               /\ \A e \in Drivers \ {d} : DriverState(e)' = DriverState(e)]_vars
  /\ [][warnings' # warnings
          => /\ seen_links' = seen_links
             /\ \A e \in Drivers : DriverState(e)' = DriverState(e)]_vars
  /\ []((warnings # EmptyBag
           \/ \E d \in Drivers : reason[d] \in {"absent", "clickfail"})
          => \A e \in Drivers : ~Ended(e) => ENABLED DriverStep(e))

\* C8's case: a response was skipped and one driver broke on a failure
\* while the other is in the middle of a round.
C8_Witness ==
  \E d, e \in Drivers :
    /\ warnings # EmptyBag
    /\ reason[d] \in {"absent", "clickfail"}
    /\ pc[e] = "scan" /\ hrefs[e] # << >>

\* C9: no step removes a URL from self.seen_links.
C9_RegistryGrows == [][seen_links \subseteq seen_links']_vars

\* C9's case: the registry holds two URLs, added in two steps.
C9_Witness == Cardinality(seen_links) = 2

\* C10 as claimed: no call of source_to_category or url_to_section raises.
C10_ClassificationNeverRaises == ~cl_out.raised

\* What follows the last "/topic/" of url, trailing slashes stripped.
AfterLastTopic(url) ==
  RStrip(Tail_(url, Max(Occurrences(url, TopicNeedle)) + Len(TopicNeedle)))

\* C11 as claimed: for every URL that holds "/topic/", source_to_category
\* returns the category "topic" and a topic_slug that is not empty and is
\* what follows the last "/topic/" of the URL, trailing slash stripped.
C11_TopicSlugIsTrailingSegment ==
  (/\ cl_out.fn = "source_to_category"
   /\ cl_url # None
   /\ Contains(cl_url[1], TopicNeedle))
    => /\ ~cl_out.raised
       /\ cl_out.value[1] = << "topic" >>
       /\ cl_out.value[2] # None
       /\ cl_out.value[2][1] # << >>
       /\ cl_out.value[2][1] = AfterLastTopic(cl_url[1])

\* The path of url as the URL syntax gives it, also for a URL that urlparse
\* refuses for the brackets of its host.
PathOf(url) == SplitUrl(url).path

\* C12 as claimed: for every non-empty URL whose path is empty or slashes
\* only, source_to_category returns ("home", None), whatever its host, its
\* query string and its fragment hold.
C12_EmptyPathIsHome ==
  (/\ cl_out.fn = "source_to_category"
   /\ cl_url # None
   /\ cl_url[1] # << >>
   /\ Strip(PathOf(cl_url[1])) = << >>)
    => /\ ~cl_out.raised
       /\ cl_out.value = << << "home" >>, None >>

\* A text node as the body takes it: trimmed, no-break spaces replaced.
Norm(t) == ReplaceNbsp(StripWs(t))

\* The j-th smallest element of the set of numbers K.
Nth(K, j) == CHOOSE i \in K : Cardinality({k \in K : k < i}) = j - 1

\* Where the j-th of the nodes c starts in their join by single spaces.
RECURSIVE Off(_, _)
Off(c, j) == IF j = 1 THEN 1 ELSE Off(c, j - 1) + Len(c[j - 1]) + 1

\* C13 as claimed: the body of the item holds no boilerplate phrase
\* anywhere in it, be it a whole text node, a part of a longer node or a
\* phrase formed by two joined nodes, and the nodes of the body are
\* paragraph text nodes in their input order.
C13_NoBoilerplateInBody ==
  (ex_out.called /\ ex_resp.textual) =>
    LET paras == ex_resp.page.paras
        c == ex_out.cleaned
    IN /\ \A b \in bad : ~Contains(ex_out.yielded[1].body, b)
       /\ \E f \in [1..Len(c) -> 1..Len(paras)] :
            /\ \A j, k \in 1..Len(c) : j < k => f[j] < f[k]
            /\ \A j \in 1..Len(c) : c[j] = Norm(paras[f[j]])

\* C13, amended: the nodes of the body are, in input order, the paragraph
\* text nodes that are not empty after trimming and are not exactly a
\* boilerplate phrase (trimmed, no-break spaces replaced); none of them is a
\* boilerplate phrase; the body is these nodes with one space between two.
C13_WholeNodesDropped ==
  (ex_out.called /\ ex_resp.textual) =>
    LET paras == ex_resp.page.paras
        c == ex_out.cleaned
        body == ex_out.yielded[1].body
        K == {i \in 1..Len(paras) :
                Norm(paras[i]) # << >> /\ Norm(paras[i]) \notin bad}
    IN /\ \A j \in 1..Len(c) : c[j] \notin bad
       /\ Len(c) = Cardinality(K)
       /\ \A j \in 1..Len(c) : c[j] = Norm(paras[Nth(K, j)])
       /\ Len(body) = IF c = << >> THEN 0 ELSE Off(c, Len(c) + 1) - 2
       /\ \A j \in 1..Len(c) :
            /\ SubSeq(body, Off(c, j), Off(c, j) + Len(c[j]) - 1) = c[j]
            /\ j < Len(c) => body[Off(c, j + 1) - 1] = " "

\* C13's case: of two paragraph text nodes the first is a boilerplate
\* phrase written with a no-break space and is dropped, the second holds
\* the same words and more and is the body.
C13_Witness ==
  /\ ex_out.called /\ ex_resp.textual
  /\ ex_resp.page.paras =
       << << "read", NBSP, "more" >>, << "more", " ", "read" >> >>
  /\ ex_out.cleaned = << << "more", " ", "read" >> >>
  /\ ex_out.yielded[1].body = << "more", " ", "read" >>
  /\ ex_out.yielded[1].tokens = 2

\* The number of items with url u, and of warnings for u.
ItemsFor(u) ==
  BagCardinality([i \in {x \in BagToSet(items) : x.url = u} |-> items[i]])
WarningsFor(u) == CopiesIn(u, warnings)

\* C14: a response that is no TextResponse gives no item (and one
\* warning), a TextResponse gives exactly one item (and no warning), also
\* on a page where no selector finds a node; the step that handles a
\* response which is no TextResponse changes no driver's locals, page or
\* position and not the registry.
C14_OneItemPerTextResponse ==
  /\ [](\A a \in BagToSet(answered) :
          /\ CopiesIn(a, answered) = 1
          /\ a.textual => ItemsFor(a.url) = 1 /\ WarningsFor(a.url) = 0
          /\ ~a.textual => ItemsFor(a.url) = 0 /\ WarningsFor(a.url) = 1)
  /\ [](BagCardinality(items) + BagCardinality(warnings)
          = BagCardinality(answered))
  /\ [][(\E a \in BagToSet(answered') :
           ~a.textual /\ CopiesIn(a, answered') > CopiesIn(a, answered))
          => /\ seen_links' = seen_links
             /\ \A d \in Drivers :
                  DriverState(d)' = DriverState(d) /\ reason'[d] = reason[d]]_vars

\* C14's case: one response was a TextResponse with a page on which title,
\* author, date and body are all missing, and gave an item; the other was
\* no TextResponse; a driver is in the middle of a round.
C14_Witness ==
  /\ \E i \in BagToSet(items) :
       /\ i.title = None /\ i.author = None /\ i.date = None
       /\ i.body = << >> /\ i.tokens = 0
  /\ \E a \in BagToSet(answered) : ~a.textual
  /\ \E d \in Drivers : pc[d] = "scan"

\* The first of the text nodes l that is not empty after trimming,
\* trimmed; None if there is none.
FirstNonEmpty(l) ==
  LET I == {i \in 1..Len(l) : StripWs(l[i]) # << >>}
  IN IF I = {} THEN None ELSE Some(StripWs(l[Min(I)]))

\* C19 as claimed: title, author and date are each the trimmed first text
\* node that is not empty after trimming among the nodes its selector
\* matches, absent when there is none, and never the empty string.
C19_FirstNonEmptyText ==
  (ex_out.called /\ ex_resp.textual) =>
    LET page == ex_resp.page
        item == ex_out.yielded[1]
    IN /\ item.title = FirstNonEmpty(page.h1)
       /\ item.author =
            FirstNonEmpty([i \in 1..Len(page.author) |-> page.author[i].text])
       /\ item.date = FirstNonEmpty(page.time)
       /\ Some(<< >>) \notin {item.title, item.author, item.date}

\* The position of the first occurrence of x in the sequence l.
FirstAt(l, x) == Min({i \in 1..Len(l) : l[i] = x})

\* C15: once parse_home has built sources, sources holds no URL twice; it
\* is sections followed by the topic hrefs that are no section, each once,
\* in the order of their first anchors; the Requests yielded so far are
\* those of the first sources in order, each with the category and
\* topic_slug source_to_category returns for its source; when parse_home
\* has returned, every source has exactly one Request.
C15_OneRunPerDistinctSource ==
  home_pc \in {"close", "yield", "done"} =>
    LET n == Len(sections)
        extra == SubSeq(sources, n + 1, Len(sources))
    IN /\ \A i, j \in 1..Len(sources) : i # j => sources[i] # sources[j]
       /\ SubSeq(sources, 1, n) = sections
       /\ Range(extra) = Range(anchors) \ Range(sections)
       /\ \A i, j \in 1..Len(extra) :
            i < j => FirstAt(anchors, extra[i]) < FirstAt(anchors, extra[j])
       /\ Len(list_requests) <= Len(sources)
       /\ \A i \in 1..Len(list_requests) :
            LET c == source_to_category(Some(sources[i]))
            IN list_requests[i] =
                 [url |-> sources[i], source |-> sources[i],
                  category |-> c.category, topic_slug |-> c.topic_slug]
       /\ home_pc = "done" =>
            \A s \in Range(sources) :
              Cardinality({i \in 1..Len(list_requests) :
                             list_requests[i].url = s}) = 1

\* C15's case: the front page shows a topic twice and a link that is a
\* section; parse_home has returned with one Request for each of the nine
\* sections and one for the topic.
C15_Witness ==
  /\ home_pc = "done"
  /\ anchors = << Site \o << "topic", "/", "a" >>, Site \o << "sports" >>,
                  Site \o << "topic", "/", "a" >> >>
  /\ Len(list_requests) = Len(sections) + 1
  /\ list_requests[Len(sections) + 1].category = << "topic" >>
  /\ list_requests[Len(sections) + 1].topic_slug = Some(<< "a" >>)

\* The article-URL predicate: on the site, a path that is one segment
\* without a slash, a slash and one or more digits, with or without a
\* trailing slash.
IsArticleUrl(u) ==
  /\ Len(u) > 6
  /\ u[1] \in {"http", "https"}
  /\ SubSeq(u, 2, 6) = << ":", "/", "/", "www.dhakapost.com", "/" >>
  /\ LET parts == Split(SubSeq(u, 7, Len(u)))
     IN /\ Len(parts) \in {2, 3}
        /\ parts[1] # << >>
        /\ parts[2] # << >>
        /\ \A k \in 1..Len(parts[2]) : parts[2][k] \in Digits
        /\ Len(parts) = 3 => parts[3] = << >>

\* C17: the registry is the set of the URLs of the article Requests
\* yielded; every URL in it is an article URL; a step that registers a
\* URL is a step of one driver in its for loop, which registers one URL,
\* counts it as new and yields one Request for it with the source, the
\* category and the topic_slug parse_home gave that driver; a step that
\* does not register counts nothing as new and yields nothing.
C17_RegistryIsEmittedArticles ==
  /\ [](/\ seen_links = {r.url : r \in BagToSet(requests)}
        /\ \A u \in seen_links : IsArticleUrl(u))
  /\ [][IF seen_links' # seen_links
          THEN \E d \in Drivers : \E u \in Range(hrefs[d]) :
                 /\ pc[d] = "scan" /\ IsArticleUrl(u) /\ u \notin seen_links
                 /\ seen_links' = seen_links \cup {u}
                 /\ new_count' = [new_count EXCEPT ![d] = @ + 1]
                 /\ requests' = requests (+) SetToBag({
                      [url |-> u, source_list |-> list_requests[d].source,
                       category |-> list_requests[d].category,
                       topic_slug |-> list_requests[d].topic_slug]})
          ELSE /\ requests' = requests
               /\ \A d \in Drivers : new_count'[d] <= new_count[d]]_vars

\* C17's case: the harvest of the topic source held an article link and
\* then a link that is no article; the driver has registered the first and
\* yielded its Request with category "topic" and the topic_slug, and has
\* dropped the second.
C17_Witness ==
  \E d \in Drivers : \E r \in BagToSet(requests) :
    /\ pc[d] = "count1" /\ new_count[d] = 1 /\ harvests[d] = 1
    /\ seen_links = {r.url}
    /\ r.source_list = Sources[d]
    /\ r.category = << "topic" >> /\ r.topic_slug = Some(<< "a" >>)
    /\ \E e \in Drivers \ {d} :
         /\ pc[e] = "scan" /\ new_count[e] = 0
         /\ hrefs[e] = << Site \o << "topic", "/", "a" >> >>

\* C20: for every driver, last_total is at most the size of the registry
\* and stale_rounds is within 0..StaleLimit; the stale test at the end of
\* a round in which the driver registered a link of its own leaves
\* stale_rounds at 0 and goes on to the button.
C20_StaleCounterInvariant ==
  /\ [](\A d \in Drivers :
          /\ last_total[d] <= Cardinality(seen_links)
          /\ stale_rounds[d] \in 0..StaleLimit)
  /\ [][\A d \in Drivers :
          (pc[d] = "scan" /\ pc'[d] # "scan" /\ new_count[d] >= 1)
            => /\ stale_rounds'[d] = 0
               /\ pc'[d] = "count1"
               /\ last_total'[d] = Cardinality(seen_links)]_vars

\* C20's case: a driver has counted a stale round and then, in a later
\* round, registered a link of its own and has its counter back at 0,
\* while the last_total of the other driver lags behind the registry.
C20_Witness ==
  \E d, e \in Drivers :
    /\ pc[d] = "count1" /\ click_i[d] = 2 /\ new_count[d] = 1
    /\ stale_rounds[d] = 0 /\ last_total[d] = 2
    /\ first_new[d] = 1
    /\ pc[e] = "count1" /\ last_total[e] < Cardinality(seen_links)

\* C16 as claimed: the stale test at the end of every round raises
\* stale_rounds by one exactly when the registry has then the size it had
\* at the head of that round, and sets it to 0 exactly when the two sizes
\* differ, in the first round of a driver and between drivers as well.
C16_StaleComparesRoundSizes ==
  [][\A d \in Drivers :
       (pc[d] = "scan" /\ pc'[d] # "scan")
         => stale_rounds'[d] =
              IF Cardinality(seen_links) = size_before[d]
                THEN stale_rounds[d] + 1
                ELSE 0]_vars

\* C18: a driver in the for loop of a round goes on, whatever the size of
\* the registry: while an article href of the harvest is not registered
\* its next step registers the first such href and yields its Request;
\* when none is left its next step is the stale test, which goes to the
\* button or breaks as stale.  It has such a step also when the target is
\* reached or passed, and only the loop head stops a driver for the target.
C18_RoundRunsToDecision ==
  /\ [][\A d \in Drivers :
          (pc[d] = "scan" /\ DriverState(d)' # DriverState(d)) =>
            LET New == {i \in 1..Len(hrefs[d]) :
                          /\ IsArticleUrl(hrefs[d][i])
                          /\ hrefs[d][i] \notin seen_links}
            IN IF New # {}
                 THEN /\ pc'[d] = "scan"
                      /\ seen_links' = seen_links \cup {hrefs[d][Min(New)]}
                      /\ EmittedBy(d)' = EmittedBy(d) + 1
                 ELSE /\ pc'[d] \in {"count1", "closing"}
                      /\ reason'[d] \in {"running", "stale"}
                      /\ seen_links' = seen_links]_vars
  /\ [][\A d \in Drivers :
          (reason'[d] = "target" /\ reason[d] # "target")
            => pc[d] \in {"start", "settle"}]_vars
  /\ [](\A d \in Drivers :
          (pc[d] = "scan" /\ Cardinality(seen_links) >= target_unique_links)
            => ENABLED (YieldRequest(d) \/ Decide(d)))

\* C18's case: three links are registered, one more than the target, and
\* a driver that registered two of them in one round has gone through its
\* stale test to the button.
C18_Witness ==
  \E d \in Drivers :
    /\ Cardinality(seen_links) = target_unique_links + 1
    /\ pc[d] = "count1" /\ new_count[d] = 2 /\ EmittedBy(d) = 2
====
